---- MODULE Spec2Model ----
(***************************************************************************)
(* State-machine model of the SWHID resolution / origin attribution code   *)
(* of swh-web:                                                             *)
(*   swh/web/models.py                 ContentOriginMapping                *)
(*   swh/web/utils/content_origin.py   the Mapping Store operations        *)
(*   swh/web/api/views/identifiers.py  /resolve and /known                 *)
(* Strings are sequences of one-character strings, so that the empty       *)
(* string is <<>> and conversions (hex, percent-encoding) are computed.    *)
(***************************************************************************)
EXTENDS Integers, Sequences, FiniteSets, TLC

VARIABLES
    rows,      \* the content_origin_mapping table: a set of row records
    nextId,    \* the table's auto-increment primary key sequence
    now,       \* the clock read by auto_now_add
    proc,      \* per caller: its position inside the save operations
    calls,     \* save calls started so far, one per directory entry
    faults,    \* datastore failures injected so far
    got,       \* the last get_origin_for_content call and its result
    req,       \* the last /resolve request: the SWHID text and what the
               \* archive and the metadata index answer during it
    resp,      \* the response to it, with the external calls it made
    kreq,      \* the last /known request: its array and the archive's objects
    kresp      \* the response to it

vars == <<rows, nextId, now, proc, calls, faults, got, req, resp, kreq, kresp>>

(***************************************************************************)
(* Bounds of the model.                                                    *)
(***************************************************************************)
\* save_content_origin_mapping calls, counting one per directory entry
MaxSaves == 2

\* datastore statements that may fail
MaxFaults == 1

\* runs of equal items in the array of a /known request
MaxRuns == 2

(***************************************************************************)
(* Python values: Optional[str] is None or a str.                          *)
(***************************************************************************)
PyNone == [type |-> "NoneType", val |-> <<>>]

PyStr(s) == [type |-> "str", val |-> s]

(***************************************************************************)
(* Hashes. A sha1_git is 20 bytes, 40 hexadecimal characters.              *)
(***************************************************************************)
Sha1GitHexLen == 40

HexDigits == <<"0", "1", "2", "3", "4", "5", "6", "7",
               "8", "9", "a", "b", "c", "d", "e", "f">>

DigitVal(c) == (CHOOSE i \in 1..16 : HexDigits[i] = c) - 1

hash_to_hex(b) ==
    [i \in 1..(2 * Len(b)) |->
        IF i % 2 = 1 THEN HexDigits[(b[(i + 1) \div 2] \div 16) + 1]
                     ELSE HexDigits[(b[i \div 2] % 16) + 1]]

hash_to_bytes(x) ==
    [i \in 1..(Len(x) \div 2) |-> 16 * DigitVal(x[2 * i - 1]) + DigitVal(x[2 * i])]

Sha1A == [i \in 1..(Sha1GitHexLen \div 2) |-> 161]

Sha1B == [i \in 1..(Sha1GitHexLen \div 2) |-> 178]

ByteHashes == {Sha1A, Sha1B}

HexHashes == {hash_to_hex(b) : b \in ByteHashes}

UrlA == <<"s", ":", "/", "/", "a">>

UrlB == <<"s", ":", "/", "/", "b">>

Urls == {UrlA, UrlB}

(***************************************************************************)
(* ContentOriginMapping: the rows and the uniqueness constraint.           *)
(***************************************************************************)
Matching(rs, h, u) == {r \in rs : r.content_sha1_git = h /\ r.origin_url = u}

ForContent(rs, h) == {r \in rs : r.content_sha1_git = h}

\* a table without the constraint accepts every INSERT
NoConstraint(rs, h, u) == FALSE

\* UniqueConstraint(fields=["content_sha1_git", "origin_url"])
UniqueViolation(rs, h, u) == Matching(rs, h, u) # {}

NewRow(id, h, u, t) ==
    [id |-> id, content_sha1_git |-> h, origin_url |-> u, created_at |-> t]

\* QuerySet.first() on an unordered queryset orders by primary key.
First(rs) == CHOOSE r \in rs : \A q \in rs : r.id <= q.id

(***************************************************************************)
(* Callers of the Mapping Store.                                           *)
(***************************************************************************)
Procs == {"w1", "w2"}

NoCall == [hash |-> <<>>, url |-> <<>>, out |-> "none", after |-> {}]

IdleProc ==
    [pc |-> "idle", mode |-> "none", contents |-> <<>>, idx |-> 1,
     hash |-> <<>>, url |-> <<>>, log |-> <<>>, inserts |-> 0,
     wrote |-> FALSE, after |-> {}, returned |-> "none", prev |-> NoCall]

\* objects of a directory listing: contents carry sha1_git, others do not
DirEntries == {[sha1_git |-> b] : b \in ByteHashes} \cup {[name |-> "subdir"]}

SeqsUpTo(S, n) == UNION {[1..k -> S] : k \in 0..n}

hasattr(obj, a) == a \in DOMAIN obj

\* the last save_content_origin_mapping call of a caller, once it has ended
LastCall(c) ==
    IF c.log = <<>> THEN c.prev
    ELSE [hash |-> c.hash, url |-> c.url, out |-> c.log[Len(c.log)],
          after |-> c.after]

\* a narrower clause: except IntegrityError
CatchesOnlyIntegrity(exc) == exc = "IntegrityError"

\* except Exception: every exception raised inside the try is caught
Caught(exc) == TRUE

\* an upsert that saves the row it finds again, restamping it
RefreshExisting(rs, m, t) == (rs \ m) \cup {[r EXCEPT !.created_at = t] : r \in m}

\* get_or_create leaves the row it finds as it is
KeepExisting(rs, m, t) == rs

\* the save call of process p ends with outcome out, the table being rs
Finish(p, out, ins, wr, rs) ==
    proc' = [proc EXCEPT
            ![p].log = Append(@, out),
            ![p].after = rs,
            ![p].inserts = ins,
            ![p].wrote = wr,
            ![p].pc = IF proc[p].mode = "dir" THEN "loop" ELSE "idle",
            ![p].returned = IF proc[p].mode = "dir" THEN @ ELSE "normal"]

\* exception exc is raised inside the try block of save_content_origin_mapping
Raise(p, exc, ins) ==
    IF Caught(exc)
    THEN Finish(p, "error", ins, proc[p].wrote, rows)
    ELSE proc' = [proc EXCEPT ![p].pc = "idle", ![p].returned = "raised",
                              ![p].inserts = ins]

SaveCall(p, h, u) ==
    /\ proc[p].pc = "idle"
    /\ calls < MaxSaves
    /\ calls' = calls + 1
    /\ proc' = [proc EXCEPT ![p] =
            [IdleProc EXCEPT !.pc = "get", !.mode = "single",
                             !.hash = h, !.url = u,
                             !.prev = LastCall(proc[p])]]
    /\ UNCHANGED <<rows, nextId, now, faults, got, req, resp, kreq, kresp>>

DirCall(p, cs, u) ==
    /\ proc[p].pc = "idle"
    /\ calls + Len(cs) <= MaxSaves
    /\ calls' = calls + Len(cs)
    /\ proc' = [proc EXCEPT ![p] =
            [IdleProc EXCEPT !.pc = "loop", !.mode = "dir",
                             !.contents = cs, !.url = u,
                             !.prev = LastCall(proc[p])]]
    /\ UNCHANGED <<rows, nextId, now, faults, got, req, resp, kreq, kresp>>

DirLoop(p) ==
    /\ proc[p].pc = "loop"
    /\ LET i == proc[p].idx
           cs == proc[p].contents
       IN  IF i > Len(cs)
           THEN proc' = [proc EXCEPT ![p].pc = "idle", ![p].returned = "normal"]
           ELSE IF hasattr(cs[i], "sha1_git")
           THEN proc' = [proc EXCEPT ![p].pc = "get", ![p].idx = i + 1,
                                     ![p].hash = hash_to_hex(cs[i].sha1_git),
                                     ![p].inserts = 0, ![p].wrote = FALSE]
           ELSE proc' = [proc EXCEPT ![p].idx = i + 1]
    /\ UNCHANGED <<rows, nextId, now, calls, faults, got, req, resp, kreq, kresp>>

\* a datastore statement of process p fails (store unavailable)
Fault(p) ==
    /\ proc[p].pc \in {"get", "create", "reget"}
    /\ faults < MaxFaults
    /\ faults' = faults + 1
    /\ Raise(p, "OperationalError",
             proc[p].inserts + (IF proc[p].pc = "create" THEN 1 ELSE 0))
    /\ UNCHANGED <<rows, nextId, now, calls, got, req, resp, kreq, kresp>>

\* get_or_create: the first SELECT
Get(p) ==
    /\ proc[p].pc = "get"
    /\ LET m == Matching(rows, proc[p].hash, proc[p].url)
       IN  IF Cardinality(m) > 1
           THEN Raise(p, "MultipleObjectsReturned", proc[p].inserts)
                /\ rows' = rows
           ELSE IF m # {}
           THEN Finish(p, "existing", proc[p].inserts, proc[p].wrote,
                       KeepExisting(rows, m, now))
                /\ rows' = KeepExisting(rows, m, now)
           ELSE proc' = [proc EXCEPT ![p].pc = "create"] /\ rows' = rows
    /\ UNCHANGED <<nextId, now, calls, faults, got, req, resp, kreq, kresp>>

\* get_or_create: the INSERT, created_at set by auto_now_add
Create(p) ==
    /\ proc[p].pc = "create"
    /\ IF UniqueViolation(rows, proc[p].hash, proc[p].url)
       THEN /\ proc' = [proc EXCEPT ![p].pc = "reget", ![p].inserts = @ + 1]
            /\ UNCHANGED <<rows, nextId, now>>
       ELSE LET rs == rows \cup {NewRow(nextId, proc[p].hash, proc[p].url, now)}
            IN  /\ rows' = rs
                /\ nextId' = nextId + 1
                /\ now' = now + 1
                /\ Finish(p, "created", proc[p].inserts + 1, TRUE, rs)
    /\ UNCHANGED <<calls, faults, got, req, resp, kreq, kresp>>

\* get_or_create: the SELECT after an IntegrityError
Reget(p) ==
    /\ proc[p].pc = "reget"
    /\ LET m == Matching(rows, proc[p].hash, proc[p].url)
       IN  IF Cardinality(m) > 1
           THEN Raise(p, "MultipleObjectsReturned", proc[p].inserts)
           ELSE IF m # {}
           THEN Finish(p, "existing", proc[p].inserts, proc[p].wrote, rows)
           ELSE Raise(p, "IntegrityError", proc[p].inserts)
    /\ UNCHANGED <<rows, nextId, now, calls, faults, got, req, resp, kreq, kresp>>

get_origin_for_content(rs, h, fails) ==
    IF fails THEN PyNone
    ELSE IF ForContent(rs, h) # {} THEN PyStr(First(ForContent(rs, h)).origin_url)
    ELSE PyNone

GetOrigin(h) ==
    /\ \E fails \in BOOLEAN :
        got' = [hash |-> h, fails |-> fails, at |-> rows,
                result |-> get_origin_for_content(rows, h, fails)]
    /\ UNCHANGED <<rows, nextId, now, proc, calls, faults, req, resp, kreq, kresp>>

(***************************************************************************)
(* SWHID texts. A text is modelled split at its separators:                *)
(*   swh:1:cnt:<hex>;origin=<percent-encoded url>                          *)
(***************************************************************************)
TypeTags == {"cnt", "dir", "rev", "rel", "snp"}

\* ObjectType[tag].name
ObjectTypeName(tag) ==
    CASE tag = "cnt" -> "CONTENT"
      [] tag = "dir" -> "DIRECTORY"
      [] tag = "rev" -> "REVISION"
      [] tag = "rel" -> "RELEASE"
      [] tag = "snp" -> "SNAPSHOT"

\* str.lower() on the names of ObjectType
Lower(name) ==
    CASE name = "CONTENT" -> "content"
      [] name = "DIRECTORY" -> "directory"
      [] name = "REVISION" -> "revision"
      [] name = "RELEASE" -> "release"
      [] name = "SNAPSHOT" -> "snapshot"

IsHexDigit(c) == \E i \in 1..16 : HexDigits[i] = c

UpperHex == <<"0", "1", "2", "3", "4", "5", "6", "7",
              "8", "9", "A", "B", "C", "D", "E", "F">>

IsPctDigit(c) == \E i \in 1..16 : HexDigits[i] = c \/ UpperHex[i] = c

PctVal(c) == (CHOOSE i \in 1..16 : HexDigits[i] = c \/ UpperHex[i] = c) - 1

\* the characters of the model's URLs, by code point
CharOf(n) ==
    CASE n = 58 -> ":"
      [] n = 47 -> "/"
      [] OTHER -> "?"

RECURSIVE PercentDecode(_)
PercentDecode(s) ==
    IF s = <<>> THEN <<>>
    ELSE IF s[1] = "%" /\ Len(s) >= 3 /\ IsPctDigit(s[2]) /\ IsPctDigit(s[3])
    THEN <<CharOf(16 * PctVal(s[2]) + PctVal(s[3]))>>
            \o PercentDecode(SubSeq(s, 4, Len(s)))
    ELSE <<s[1]>> \o PercentDecode(Tail(s))

EncUrlA == <<"s", "%", "3", "A", "%", "2", "F", "%", "2", "f", "a">>

EncUrlB == <<"s", "%", "3", "A", "%", "2", "F", "%", "2", "f", "b">>

\* a qualifier value with a truncated escape
BadEncUrl == <<"s", "%", "3">>

Qualifiers == {<<>>, <<[key |-> "origin", value |-> EncUrlA]>>,
               <<[key |-> "origin", value |-> EncUrlB]>>}

ValidTexts ==
    [namespace : {"swh"}, version : {"1"}, tag : TypeTags, hex : HexHashes,
     qualifiers : Qualifiers]

MalformedTexts ==
    {[namespace |-> "swx", version |-> "1", tag |-> "rev",
      hex |-> hash_to_hex(Sha1A), qualifiers |-> <<>>],
     [namespace |-> "swh", version |-> "1", tag |-> "rev",
      hex |-> SubSeq(hash_to_hex(Sha1A), 1, Sha1GitHexLen - 1),
      qualifiers |-> <<>>],
     [namespace |-> "swh", version |-> "1", tag |-> "xyz",
      hex |-> hash_to_hex(Sha1B), qualifiers |-> <<>>],
     [namespace |-> "swh", version |-> "1", tag |-> "cnt",
      hex |-> hash_to_hex(Sha1B),
      qualifiers |-> <<[key |-> "origin", value |-> BadEncUrl]>>]}

SwhidTexts == ValidTexts \cup MalformedTexts

WellEncoded(v) ==
    \A i \in DOMAIN v :
        v[i] = "%" => /\ i + 2 <= Len(v)
                      /\ IsPctDigit(v[i + 1]) /\ IsPctDigit(v[i + 2])

WellFormed(t) ==
    /\ t.namespace = "swh"
    /\ t.version = "1"
    /\ t.tag \in TypeTags
    /\ Len(t.hex) = Sha1GitHexLen
    /\ \A i \in DOMAIN t.hex : IsHexDigit(t.hex[i])
    /\ \A i \in DOMAIN t.qualifiers : WellEncoded(t.qualifiers[i].value)

\* the origin qualifier of a text, percent-decoded; None without one
QualifierOrigin(t) ==
    IF \E i \in DOMAIN t.qualifiers : t.qualifiers[i].key = "origin"
    THEN PyStr(PercentDecode(
            t.qualifiers[CHOOSE i \in DOMAIN t.qualifiers :
                            t.qualifiers[i].key = "origin"].value))
    ELSE PyNone

\* swhid_parsed: the QualifiedSWHID of a well-formed text
ParseSwhid(t) ==
    [namespace |-> t.namespace,
     scheme_version |-> 1,
     object_type |-> ObjectTypeName(t.tag),
     object_id |-> hash_to_bytes(t.hex),
     qualifiers |-> t.qualifiers]

\* resolve_swhid: BadInputExc on a malformed text, else the parsed SWHID
\* and the browse url of the object
resolve_swhid(t) ==
    IF ~WellFormed(t)
    THEN [raised |-> "BadInputExc", swhid_parsed |-> <<>>, browse_url |-> <<>>]
    ELSE [raised |-> "",
          swhid_parsed |-> ParseSwhid(t),
          browse_url |-> [object_type |-> Lower(ObjectTypeName(t.tag)),
                          object_id |-> t.hex,
                          origin_url |-> QualifierOrigin(t)]]

(***************************************************************************)
(* What the archive and the metadata index answer during one request.      *)
(***************************************************************************)
Envs ==
    {e \in [exists : BOOLEAN,
            index : {"config_error", "search_error", "nomatch", "match"},
            origin : {PyNone} \cup {PyStr(u) : u \in Urls},
            snapshot : BOOLEAN] :
        e.index # "match" => e.origin = PyNone}

Call(fn, arg) == [fn |-> fn, arg |-> arg]

Result(raised, value, log) == [raised |-> raised, value |-> value, log |-> log]

\* a narrower clause: except NotFoundExc
SwallowsOnlyNotFound(exc) == exc = "NotFoundExc"

\* except Exception: pass
Swallowed(exc) == TRUE

\* try: <r> except Exception: pass, followed by return None
TryPass(r) ==
    IF r.raised # "" /\ Swallowed(r.raised)
    THEN Result("", PyNone, r.log)
    ELSE r

\* indexer_storage.origin_intrinsic_metadata_search_fulltext(
\*     conjunction=[f"{kind}:{id}"], limit=1), then archive.lookup_origin
SearchThenLookup(kind, id, e) ==
    LET search == Call("origin_intrinsic_metadata_search_fulltext",
                       <<kind, ":">> \o id)
        lookup == Call("lookup_origin", <<>>)
    IN  CASE e.index = "search_error" ->
                Result("IndexerError", PyNone, <<search>>)
          [] e.index = "nomatch" -> Result("", PyNone, <<search>>)
          [] e.index = "match" /\ e.origin = PyNone ->
                Result("NotFoundExc", PyNone, <<search, lookup>>)
          [] e.index = "match" /\ e.origin # PyNone ->
                Result("", e.origin, <<search, lookup>>)

\* config.indexer_storage(), then the search
WithIndexer(kind, id, e) ==
    IF e.index = "config_error"
    THEN Result("ConfigError", PyNone, <<Call("indexer_storage", <<>>)>>)
    ELSE LET r == SearchThenLookup(kind, id, e)
         IN  Result(r.raised, r.value, <<Call("indexer_storage", <<>>)>> \o r.log)

find_origin_for_content(id, e) ==
    LET storage == Call("indexer_storage", <<>>)
    IN  IF e.index = "config_error"
        THEN TryPass(Result("ConfigError", PyNone, <<storage>>))
        ELSE LET r == TryPass(SearchThenLookup("content", id, e))
             IN  TryPass(Result(r.raised, r.value, <<storage>> \o r.log))

find_origin_for_directory(id, e) == TryPass(WithIndexer("directory", id, e))

find_origin_for_revision(id, e) == TryPass(WithIndexer("revision", id, e))

find_origin_for_release(id, e) == TryPass(WithIndexer("release", id, e))

find_origin_for_snapshot(id, e) ==
    TryPass(Result(IF e.snapshot THEN "" ELSE "NotFoundExc", PyNone,
                   <<Call("lookup_snapshot", id)>>))

\* lines 70-88: the dispatch on the object type, inside try/except
FindOrigin(type, id, e) ==
    TryPass(CASE type = "content" -> find_origin_for_content(id, e)
              [] type = "directory" -> find_origin_for_directory(id, e)
              [] type = "revision" -> find_origin_for_revision(id, e)
              [] type = "release" -> find_origin_for_release(id, e)
              [] type = "snapshot" -> find_origin_for_snapshot(id, e)
              [] OTHER -> Result("", PyNone, <<>>))

\* the field without its default: "origin_url": origin_url
OriginFieldRaw(o) == o

\* "origin_url": origin_url if origin_url is not None else ""
OriginField(o) == IF o # PyNone THEN o ELSE PyStr(<<>>)

NoBody == [error |-> TRUE]

\* the existence check moved after the origin attribution
CheckAfterAttribution(exists, found) ==
    IF found.raised # "" THEN found
    ELSE IF ~exists THEN Result("NotFoundExc", PyNone, found.log)
    ELSE found

\* archive.lookup_object before the origin attribution
ExistenceThenOrigin(exists, found) ==
    IF ~exists THEN Result("NotFoundExc", PyNone, <<>>) ELSE found

api_resolve_swhid(t, e) ==
    LET swhid_resolved == resolve_swhid(t)
        swhid_parsed == swhid_resolved.swhid_parsed
        object_type == swhid_parsed.object_type
        object_id == hash_to_hex(swhid_parsed.object_id)
        first == <<Call("resolve_swhid", <<>>)>>
        lookup == <<Call("lookup_object", object_id)>>
        found == ExistenceThenOrigin(e.exists,
                    FindOrigin(Lower(object_type), object_id, e))
    IN  IF swhid_resolved.raised # ""
        THEN [status |-> 400, body |-> NoBody, log |-> first]
        ELSE IF found.raised = "NotFoundExc" /\ ~e.exists
        THEN [status |-> 404, body |-> NoBody,
              log |-> first \o lookup \o found.log]
        ELSE IF found.raised # ""
        THEN [status |-> 500, body |-> NoBody,
              log |-> first \o lookup \o found.log]
        ELSE [status |-> 200,
              body |-> [namespace |-> swhid_parsed.namespace,
                        scheme_version |-> swhid_parsed.scheme_version,
                        object_type |-> Lower(object_type),
                        object_id |-> object_id,
                        metadata |-> swhid_parsed.qualifiers,
                        browse_url |-> swhid_resolved.browse_url,
                        origin_url |-> OriginField(found.value)],
              log |-> first \o lookup \o found.log]

Resolve(t, e) ==
    /\ req' = [text |-> t, env |-> e]
    /\ resp' = api_resolve_swhid(t, e)
    /\ UNCHANGED <<rows, nextId, now, proc, calls, faults, got, kreq, kresp>>

(***************************************************************************)
(* /known. The request array is kept run-length encoded, a run being n     *)
(* copies of one text, so that arrays around the size limit are explored.  *)
(***************************************************************************)
limit == 1000

RunLengths == {1, limit - 1, limit}

ObjectTypes == {ObjectTypeName(tag) : tag \in TypeTags}

\* the tag of an ObjectType, as str(swhid) writes it
TagOf(type) == CHOOSE tag \in TypeTags : ObjectTypeName(tag) = type

KnownTexts ==
    {t \in ValidTexts : t.qualifiers = <<>> /\ t.tag \in {"cnt", "dir", "snp"}}
    \cup {t \in MalformedTexts : t.tag \in {"xyz", "cnt"}}

Runs == [text : KnownTexts, n : RunLengths]

Object(type, id) == [type |-> type, id |-> id]

\* the objects the archive holds when the request arrives
ArchiveContents ==
    {{},
     {Object("CONTENT", Sha1A)},
     {Object("CONTENT", Sha1A), Object("DIRECTORY", Sha1B),
      Object("SNAPSHOT", Sha1A), Object("SNAPSHOT", Sha1B)},
     {Object(ty, b) : ty \in ObjectTypes, b \in ByteHashes}}

RECURSIVE DataLen(_)
DataLen(data) ==
    IF data = <<>> THEN 0 ELSE Head(data).n + DataLen(Tail(data))

\* a core SWHID carries no qualifier
CoreWellFormed(t) == WellFormed(t) /\ t.qualifiers = <<>>

parse_core_swhid(t) ==
    [namespace |-> t.namespace, scheme_version |-> 1,
     object_type |-> ObjectTypeName(t.tag), object_id |-> hash_to_bytes(t.hex)]

\* str(swhid) of a CoreSWHID
Str(swhid) ==
    [namespace |-> swhid.namespace, version |-> "1",
     tag |-> TagOf(swhid.object_type), hex |-> hash_to_hex(swhid.object_id),
     qualifiers |-> <<>>]

\* group_swhids: every object type to the hashes of the SWHIDs of that type
group_swhids(swhids) ==
    [k \in ObjectTypes |-> {sw.object_id : sw \in {x \in swhids : x.object_type = k}}]

\* archive.lookup_missing_hashes({k: v}): the hex hashes of v the archive
\* does not hold as objects of type k
lookup_missing_hashes(k, v, present) ==
    {hash_to_hex(b) : b \in {x \in v : Object(k, x) \notin present}}

MissingBytes(by_type, present) ==
    [k \in DOMAIN by_type |->
        {hash_to_bytes(x) : x \in lookup_missing_hashes(k, by_type[k], present)}]

\* the test against the missing hashes of every type together
NotMissingAnyType(sw, missing) ==
    sw.object_id \notin UNION {missing[k] : k \in DOMAIN missing}

\* if swhid.object_id not in missing_hashes[swhid.object_type]
NotMissing(sw, missing) == sw.object_id \notin missing[sw.object_type]

\* the test off by one: len(request.data) >= limit
AtLimit(n) == n >= limit

\* if len(request.data) > limit
OverLimit(n) == n > limit

api_swhid_known(data, present) ==
    LET texts == {data[i].text : i \in DOMAIN data}
        bad == {i \in DOMAIN data : ~CoreWellFormed(data[i].text)}
        swhids == {parse_core_swhid(t) : t \in texts}
        swhids_by_type == group_swhids(swhids)
        missing_hashes == MissingBytes(swhids_by_type, present)
    IN  IF OverLimit(DataLen(data))
        THEN [status |-> 413, body |-> <<>>, parsed |-> 0, lookups |-> 0]
        ELSE IF bad # {}
        THEN LET first == CHOOSE i \in bad : \A j \in bad : i <= j
             IN  [status |-> 400, body |-> <<>>,
                  parsed |-> DataLen(SubSeq(data, 1, first - 1)) + 1,
                  lookups |-> 0]
        ELSE [status |-> 200,
              body |-> [k \in {Str(sw) : sw \in swhids} |->
                          [known |-> \E sw \in swhids :
                              Str(sw) = k /\ NotMissing(sw, missing_hashes)]],
              parsed |-> DataLen(data),
              lookups |-> Cardinality(DOMAIN swhids_by_type)]

Known(data, present) ==
    /\ kreq' = [data |-> data, present |-> present]
    /\ kresp' = api_swhid_known(data, present)
    /\ UNCHANGED <<rows, nextId, now, proc, calls, faults, got, req, resp>>

Init ==
    /\ rows = {}
    /\ nextId = 1
    /\ now = 1
    /\ proc = [p \in Procs |-> IdleProc]
    /\ calls = 0
    /\ faults = 0
    /\ got = [hash |-> <<>>, fails |-> FALSE, at |-> {}, result |-> PyNone]
    /\ req = [text |-> <<>>, env |-> <<>>]
    /\ resp = [status |-> 0, body |-> NoBody, log |-> <<>>]
    /\ kreq = [data |-> <<>>, present |-> {}]
    /\ kresp = [status |-> 0, body |-> <<>>, parsed |-> 0, lookups |-> 0]

NextStore ==
    \/ \E p \in Procs, h \in HexHashes, u \in Urls : SaveCall(p, h, u)
    \/ \E p \in Procs, cs \in SeqsUpTo(DirEntries, MaxSaves), u \in Urls :
            DirCall(p, cs, u)
    \/ \E p \in Procs : DirLoop(p)
    \/ \E p \in Procs : Fault(p)
    \/ \E p \in Procs : Get(p)
    \/ \E p \in Procs : Create(p)
    \/ \E p \in Procs : Reget(p)

SpecStore == Init /\ [][NextStore]_vars

\* one caller at a time: upserts and lookups in sequence
Caller == "w1"

NextUpsert ==
    \/ \E h \in HexHashes, u \in Urls : SaveCall(Caller, h, u)
    \/ Fault(Caller)
    \/ Get(Caller)
    \/ Create(Caller)
    \/ \E h \in HexHashes : GetOrigin(h)

SpecUpsert == Init /\ [][NextUpsert]_vars

\* A /resolve request against a store filled by earlier upserts. The
\* handler keeps no state of its own, so each behaviour serves one request,
\* from every store the upserts reach.
Unserved == resp.status = 0

NextResolve ==
    \/ Unserved /\ \E h \in HexHashes, u \in Urls : SaveCall(Caller, h, u)
    \/ Unserved /\ Get(Caller)
    \/ Unserved /\ Create(Caller)
    \/ Unserved /\ \E t \in SwhidTexts, e \in Envs : Resolve(t, e)

SpecResolve == Init /\ [][NextResolve]_vars

\* /known requests: the handler keeps no state, so one request per behaviour
KnownUnserved == kresp.status = 0

NextKnown ==
    KnownUnserved /\ \E data \in SeqsUpTo(Runs, MaxRuns),
                          present \in ArchiveContents : Known(data, present)

SpecKnown == Init /\ [][NextKnown]_vars

(***************************************************************************)
(* Properties of /resolve.                                                 *)
(***************************************************************************)
Served == resp.status # 0

Resolvable == Served /\ WellFormed(req.text) /\ req.env.exists

\* the origin lookups of the object's type end with an origin
OriginFound(t, e) == t.tag # "snp" /\ e.index = "match" /\ e.origin # PyNone

\* a step of the attribution of the object's type fails
AttributionFails(t, e) ==
    IF t.tag = "snp" THEN ~e.snapshot
    ELSE \/ e.index \in {"config_error", "search_error"}
         \/ e.index = "match" /\ e.origin = PyNone

\* C1: cascade precedence. When the identifier of an existing object
\* carries an origin qualifier decoding to A and the Mapping Store holds a
\* row with another origin for the same hash, the response's origin_url is
\* A, whatever the metadata index answers.
QualifierWins ==
    (/\ Served /\ resp.status = 200
     /\ QualifierOrigin(req.text) # PyNone
     /\ \E r \in rows : /\ r.content_sha1_git = resp.body.object_id
                        /\ r.origin_url # QualifierOrigin(req.text).val)
    => resp.body.origin_url = QualifierOrigin(req.text)

\* C2: for a well-formed identifier of an existing object the response is
\* a 200 whose origin_url is present and a string, empty exactly when the
\* origin lookups found no origin.
OriginUrlAlwaysString ==
    Resolvable =>
        /\ resp.status = 200
        /\ "origin_url" \in DOMAIN resp.body
        /\ resp.body.origin_url.type = "str"
        /\ (resp.body.origin_url.val = <<>>) <=> ~OriginFound(req.text, req.env)
        /\ OriginFound(req.text, req.env) => resp.body.origin_url = req.env.origin

\* the index matched but the origin it names could not be looked up, and
\* the response carries the empty string
EmptyOriginOnLookupFailure ==
    /\ Resolvable
    /\ req.env.index = "match" /\ req.env.origin = PyNone
    /\ req.text.tag = "cnt"
    /\ resp.status = 200 /\ resp.body.origin_url = PyStr(<<>>)

\* C3: a well-formed identifier of an object the archive lacks ends with
\* 404 and no body, the only external calls being the parse and
\* archive.lookup_object: no index query, no origin or snapshot lookup.
AbsentObjectNotFound ==
    (Served /\ WellFormed(req.text) /\ ~req.env.exists) =>
        /\ resp.status = 404
        /\ resp.body = NoBody
        /\ \A i \in DOMAIN resp.log :
                resp.log[i].fn \in {"resolve_swhid", "lookup_object"}
        /\ \E i \in DOMAIN resp.log : resp.log[i].fn = "lookup_object"

\* a qualified identifier of an absent object was answered 404
AbsentObjectAsked ==
    /\ Served /\ WellFormed(req.text) /\ ~req.env.exists
    /\ req.text.qualifiers # <<>>
    /\ resp.status = 404

\* C4: whichever step of the origin attribution fails, the resolve of an
\* existing object completes with its normal 200 response, the failure
\* counting as no origin.
AttributionFailureContained ==
    Resolvable =>
        /\ resp.status = 200
        /\ resp.body.object_id = req.text.hex
        /\ resp.body.object_type = Lower(ObjectTypeName(req.text.tag))
        /\ AttributionFails(req.text, req.env)
                => resp.body.origin_url = PyStr(<<>>)

\* the metadata index raised during the search and the response is a 200
IndexFailureSurvived ==
    /\ Resolvable
    /\ req.env.index = "search_error" /\ req.text.tag = "rev"
    /\ \E i \in DOMAIN resp.log :
            resp.log[i].fn = "origin_intrinsic_metadata_search_fulltext"
    /\ resp.status = 200

\* the resolve of a content identifier answered 200 with a non-empty
\* origin_url
OriginLearned ==
    /\ Served /\ resp.status = 200
    /\ resp.body.object_type = "content"
    /\ resp.body.origin_url.val # <<>>

\* C11: opportunistic learning. Once the resolve of a content identifier
\* has answered with a non-empty origin URL U, the Mapping Store holds a
\* row (object hash, U), so that a later lookup of the hash can find U.
LearnedOriginStored ==
    OriginLearned =>
        \E r \in rows : /\ r.content_sha1_git = resp.body.object_id
                        /\ r.origin_url = resp.body.origin_url.val

(***************************************************************************)
(* Properties of the Mapping Store.                                        *)
(***************************************************************************)
\* the hex hashes save_content_origin_mappings_from_directory saves, in order
ContentHashes(cs) ==
    LET cnt == SelectSeq(cs, LAMBDA e : hasattr(e, "sha1_git"))
    IN  [k \in 1..Len(cnt) |-> hash_to_hex(cnt[k].sha1_git)]

\* C5: upsert idempotence. When the same pair is saved twice in a row and
\* the first call met no datastore failure, then after the second call the
\* table holds exactly one row for the pair and is the table the first call
\* left: the row's created_at and every other row are unchanged.
UpsertIdempotent ==
    LET c == proc[Caller]
    IN  (/\ c.pc = "idle" /\ c.log # <<>>
         /\ c.prev.out \in {"created", "existing"}
         /\ c.prev.hash = c.hash /\ c.prev.url = c.url)
        => /\ Cardinality(Matching(c.after, c.hash, c.url)) = 1
           /\ c.after = c.prev.after
           /\ rows = c.after

\* the second of two successful calls with the same pair has returned, the
\* first having created the row, and the clock has moved on since
UpsertTwice ==
    LET c == proc[Caller]
    IN  /\ c.pc = "idle" /\ c.log = <<"existing">>
        /\ c.prev.out = "created"
        /\ c.prev.hash = c.hash /\ c.prev.url = c.url
        /\ \E r \in Matching(rows, c.hash, c.url) : r.created_at < now

\* C6: under every interleaving of concurrent saves the pair
\* (content_sha1_git, origin_url) is unique in every reachable state, no
\* caller sees an exception, a call fails only when the datastore itself
\* failed, and every call that returned without such a failure leaves
\* exactly one row for its pair.
ConcurrentUpsertSafe ==
    /\ \A h \in HexHashes, u \in Urls : Cardinality(Matching(rows, h, u)) <= 1
    /\ \A p \in Procs :
        LET c == proc[p]
        IN  /\ c.returned # "raised"
            /\ (\E k \in DOMAIN c.log : c.log[k] = "error") => faults > 0
            /\ (c.log # <<>> /\ c.pc \in {"idle", "loop"}
                    /\ c.log[Len(c.log)] \in {"created", "existing"})
               => Cardinality(Matching(rows, c.hash, c.url)) = 1

\* two callers raced on the same pair: one inserted, the other's INSERT hit
\* the uniqueness constraint and it read the winner's row back
UpsertRace ==
    \E p, q \in Procs :
        /\ p # q
        /\ proc[p].mode = "single" /\ proc[q].mode = "single"
        /\ proc[p].pc = "idle" /\ proc[q].pc = "idle"
        /\ proc[p].hash = proc[q].hash /\ proc[p].url = proc[q].url
        /\ proc[p].log = <<"created">>
        /\ proc[q].log = <<"existing">> /\ proc[q].inserts = 1
        /\ Cardinality(Matching(rows, proc[p].hash, proc[p].url)) = 1

\* C9: get_origin_for_content returns the origin of the most recently
\* created row of the content hash, and None when the hash has no row.
LookupReturnsMostRecent ==
    LET m == ForContent(got.at, got.hash)
    IN  ~got.fails =>
            IF m = {} THEN got.result = PyNone
            ELSE \E r \in m :
                    /\ \A q \in m : q.created_at <= r.created_at
                    /\ got.result = PyStr(r.origin_url)

\* C10: a write failure never reaches the caller. Every save returns
\* normally, issues at most one INSERT, and a call that failed has written
\* nothing; a directory call saves every content entry whatever happened
\* to the others: one outcome per content entry, and a row for every entry
\* whose own save did not fail.
WriteFailureContained ==
    \A p \in Procs :
        LET c == proc[p]
            hs == ContentHashes(c.contents)
        IN  /\ c.returned # "raised"
            /\ c.inserts <= 1
            /\ (c.log # <<>> /\ c.pc \in {"idle", "loop"}
                    /\ c.log[Len(c.log)] = "error") => ~c.wrote
            /\ (c.mode = "dir" /\ c.pc = "idle")
               => /\ c.returned = "normal"
                  /\ Len(c.log) = Len(hs)
                  /\ \A k \in DOMAIN c.log :
                        c.log[k] # "error"
                            => Matching(rows, hs[k], c.url) # {}

\* a directory call whose first write failed has still written its second
DirWriteAfterFailure ==
    \E p \in Procs :
        /\ proc[p].mode = "dir" /\ proc[p].pc = "idle"
        /\ proc[p].returned = "normal"
        /\ Len(proc[p].log) = 2
        /\ proc[p].log[1] = "error" /\ proc[p].log[2] = "created"
        /\ faults > 0

(***************************************************************************)
(* Properties of /known.                                                   *)
(***************************************************************************)
KnownServed == kresp.status # 0

TextsOf(data) == {data[i].text : i \in DOMAIN data}

AllWellFormed(data) == \A i \in DOMAIN data : CoreWellFormed(data[i].text)

\* the archive holds the object a text names, as an object of its type
IsPresent(t, present) ==
    Object(ObjectTypeName(t.tag), hash_to_bytes(t.hex)) \in present

\* the items of the array that name present objects, each copy counted
RECURSIVE CountPresent(_, _)
CountPresent(data, present) ==
    IF data = <<>> THEN 0
    ELSE (IF IsPresent(Head(data).text, present) THEN Head(data).n ELSE 0)
            + CountPresent(Tail(data), present)

KnownTrue == {k \in DOMAIN kresp.body : kresp.body[k].known}

KnownFalse == {k \in DOMAIN kresp.body : ~kresp.body[k].known}

\* C7 as claimed: N <= 1000 well-formed identifiers, M of them naming
\* present objects, give exactly M entries known: true and N - M entries
\* known: false.
KnownCountsEveryItem ==
    (KnownServed /\ AllWellFormed(kreq.data) /\ DataLen(kreq.data) <= limit)
    => /\ kresp.status = 200
       /\ Cardinality(KnownTrue) = CountPresent(kreq.data, kreq.present)
       /\ Cardinality(KnownFalse) =
            DataLen(kreq.data) - CountPresent(kreq.data, kreq.present)

\* C7 amended: the response has one entry per distinct identifier of the
\* array, known: true exactly for those whose object the archive holds for
\* the identifier's own type; with D distinct identifiers of which M exist
\* that is M entries true and D - M false.
KnownCountsDistinctItems ==
    (KnownServed /\ AllWellFormed(kreq.data) /\ DataLen(kreq.data) <= limit)
    => LET D == TextsOf(kreq.data)
           M == {t \in D : IsPresent(t, kreq.present)}
       IN  /\ kresp.status = 200
           /\ DOMAIN kresp.body = D
           /\ KnownTrue = M
           /\ Cardinality(KnownTrue) = Cardinality(M)
           /\ Cardinality(KnownFalse) = Cardinality(D) - Cardinality(M)

\* one hash asked as two object types, present as one of them only
KnownPerType ==
    /\ kresp.status = 200
    /\ \E a \in KnownTrue, b \in KnownFalse : a.hex = b.hex /\ a.tag # b.tag

\* C8: an array of more than 1000 items is answered 413 before any
\* identifier is parsed or any archive lookup issued, malformed items or
\* not; an array of 1000 items or fewer is not answered 413.
KnownSizeCap ==
    KnownServed =>
        /\ (DataLen(kreq.data) > limit) <=> (kresp.status = 413)
        /\ kresp.status = 413
            => kresp.parsed = 0 /\ kresp.lookups = 0 /\ kresp.body = <<>>
        /\ (DataLen(kreq.data) = limit /\ AllWellFormed(kreq.data))
            => kresp.status = 200

\* 1001 items, one of them malformed, answered 413
KnownOverCap ==
    /\ KnownServed
    /\ DataLen(kreq.data) = limit + 1
    /\ ~AllWellFormed(kreq.data)
    /\ kresp.status = 413

====
